---- MODULE Spec2Model ----
(***************************************************************************)
(* A model of the nuuk reduction engine (src/src/main.rs).                 *)
(*                                                                         *)
(* Nouns are reference-counted heap nodes (Rc<NounInner>): the model keeps *)
(* a heap, a sequence of nodes, and a Noun is an index into it, so that    *)
(* object identity (Rc::ptr_eq) and structural equality are different      *)
(* things.  Nodes are never mutated and the heap only grows.               *)
(* Every function returns a record [st, heap, ref]: st is "Ok" or the      *)
(* panic that aborted the call, heap the store after the call and ref the  *)
(* returned Noun.                                                          *)
(***************************************************************************)
EXTENDS Integers, Sequences, FiniteSets, TLC

VARIABLES heap, overflow_checks, roots, call, callstack, ctl, log

vars == <<heap, overflow_checks, roots, call, callstack, ctl, log>>

(***************************************************************************)
(* Bounds of the model.                                                    *)
(***************************************************************************)
\* Atom is a u64; the model keeps the wrap-around at 2^AtomBits.
AtomBits == 7
\* largest subject of the decrement scenario besides the test's own 43
MaxDecr == 5
\* the largest literal path handed to rplc_at / used as an address
MaxPath == 9
\* number of nouns a caller builds before it calls
MaxRoots == 2
\* the log keeps the activations down to this depth
LogDepth == 3

AtomMax == 2^AtomBits - 1

\* `64 - 64 - 1` computed in u32 without overflow checks is 2^32 - 1; TLC's
\* integers stop at 2^31 - 1, and any value above the depth of every tree
\* that fits the heap behaves the same.
WrappedCursor == 2147483647

(***************************************************************************)
(* Opcodes, lines 45-59.                                                   *)
(***************************************************************************)
YES == 0
NAH == 1

ATOM_ADDR == 0
ATOM_IDTY == 1
ATOM_EVAL == 2
ATOM_CELL == 3
ATOM_INCR == 4
ATOM_EQAL == 5
ATOM_BRCH == 6
ATOM_CMPS == 7
ATOM_EXTN == 8
ATOM_INVK == 9
ATOM_RPLC == 10
ATOM_HINT == 11

(***************************************************************************)
(* The noun store.                                                         *)
(***************************************************************************)
AtomNode(n) == [tag |-> "Atom", n |-> n]
CellNode(car, cdr) == [tag |-> "Cell", car |-> car, cdr |-> cdr]

Ok(h, r) == [st |-> "Ok", heap |-> h, ref |-> r]
Panic(h, msg) == [st |-> msg, heap |-> h, ref |-> 0]

\* Noun::atom
Noun_atom(h, atom) == Ok(Append(h, AtomNode(atom)), Len(h) + 1)

\* Noun::cell
Noun_cell(h, car, cdr) == Ok(Append(h, CellNode(car, cdr)), Len(h) + 1)

\* Noun::is_cell
is_cell(h, noun) == h[noun].tag = "Cell"

\* The thread-local opcode nouns NOUN_ADDR .. NOUN_HINT: the noun of opcode
\* k lives at heap index k + 1.
ThreadLocals == [k \in 1..12 |-> AtomNode(k - 1)]
NOUN_ADDR == ATOM_ADDR + 1
NOUN_IDTY == ATOM_IDTY + 1
NOUN_EVAL == ATOM_EVAL + 1
NOUN_CELL == ATOM_CELL + 1
NOUN_INCR == ATOM_INCR + 1
NOUN_EQAL == ATOM_EQAL + 1
NOUN_BRCH == ATOM_BRCH + 1
NOUN_CMPS == ATOM_CMPS + 1
NOUN_EXTN == ATOM_EXTN + 1
NOUN_INVK == ATOM_INVK + 1
NOUN_RPLC == ATOM_RPLC + 1
NOUN_HINT == ATOM_HINT + 1

\* Atom::incr forgetting to add
Atom_incr_same(atom) == [st |-> "Ok", n |-> atom]

\* Atom::incr: `1 + atom` panics on overflow when the build checks
\* arithmetic and wraps when it does not.
Atom_incr(atom) ==
  IF atom = AtomMax
    THEN IF overflow_checks THEN [st |-> "attempt to add with overflow", n |-> 0]
                            ELSE [st |-> "Ok", n |-> 0]
    ELSE [st |-> "Ok", n |-> 1 + atom]

(***************************************************************************)
(* The tree of atom values a noun denotes: <<n>> for an atom, <<h, t>> for *)
(* a cell.                                                                 *)
(***************************************************************************)
RECURSIVE Tree(_, _)
Tree(h, noun) ==
  IF h[noun].tag = "Atom"
    THEN <<h[noun].n>>
    ELSE <<Tree(h, h[noun].car), Tree(h, h[noun].cdr)>>

(***************************************************************************)
(* noun_eq, lines 102-122.                                                 *)
(***************************************************************************)
\* noun_eq_push forgetting the tails
noun_eq_push_heads(h, deque) ==
  LET a == h[Head(deque)[1]]
      b == h[Head(deque)[2]]
  IN  Tail(deque) \o <<(<<a.car, b.car>>)>>

\* the match arms of the work-list loop: what one popped pair pushes
noun_eq_push(h, deque) ==
  LET a == h[Head(deque)[1]]
      b == h[Head(deque)[2]]
  IN  Tail(deque) \o <<(<<a.car, b.car>>), (<<a.cdr, b.cdr>>)>>

RECURSIVE noun_eq_loop(_, _)
noun_eq_loop(h, deque) ==
  IF deque = <<>> THEN TRUE
  ELSE LET a == h[Head(deque)[1]]
           b == h[Head(deque)[2]]
       IN  IF a.tag = "Atom" /\ b.tag = "Atom" /\ a.n = b.n
             THEN noun_eq_loop(h, Tail(deque))
           ELSE IF a.tag = "Cell" /\ b.tag = "Cell"
             THEN noun_eq_loop(h, noun_eq_push(h, deque))
           ELSE FALSE

noun_eq(h, a, b) ==
  IF a = b THEN TRUE
  ELSE noun_eq_loop(h, <<(<<a, b>>)>>)

(***************************************************************************)
(* addr, lines 160-202.                                                    *)
(***************************************************************************)
RECURSIVE BitLen(_)
BitLen(path) == IF path = 0 THEN 0 ELSE 1 + BitLen(path \div 2)

\* u64::leading_zeros
leading_zeros(path) == AtomBits - BitLen(path)

\* `(path & (1 << cursor)) >> cursor`; a shift count beyond the width is
\* masked when it is not checked
Bit(path, cursor) == (path \div 2^(cursor % AtomBits)) % 2

\* Descend with the two sides exchanged
Descend_swapped(h, noun, bit) == IF bit = 0 THEN h[noun].cdr ELSE h[noun].car

\* `if bit == 0 { subj = car } else { subj = cdr }`
Descend(h, noun, bit) == IF bit = 0 THEN h[noun].car ELSE h[noun].cdr

RECURSIVE aux_loop(_, _, _, _)
aux_loop(h, path, cursor, subj) ==
  IF cursor = 0 THEN Ok(h, subj)
  ELSE IF h[subj].tag # "Cell" THEN Panic(h, "expected a cell")
  ELSE aux_loop(h, path, cursor - 1, Descend(h, subj, Bit(path, cursor - 1)))

aux(h, path, subj) ==
  aux_loop(h, path, AtomBits - leading_zeros(path) - 1, subj)

addr(h, subj, addr_) ==
  IF h[addr_].tag # "Atom" THEN Panic(h, "address is not an atom")
  ELSE IF h[addr_].n = 0 THEN Panic(h, "address can't be zero")
  ELSE aux(h, h[addr_].n, subj)

(***************************************************************************)
(* rplc_at, lines 342-381.                                                 *)
(***************************************************************************)
\* `let mut cursor = 64 - path.leading_zeros() - 1`, a u32: path 0 makes it
\* -1, a panic in a build that checks overflow and a wrap in one that does
\* not.
rplc_cursor(path) ==
  IF AtomBits - leading_zeros(path) - 1 < 0
    THEN IF overflow_checks
           THEN [st |-> "attempt to subtract with overflow", n |-> 0]
           ELSE [st |-> "Ok", n |-> WrappedCursor]
    ELSE [st |-> "Ok", n |-> AtomBits - leading_zeros(path) - 1]

\* the first loop: the walk down, pushing (bit, car, cdr) frames
RECURSIVE rplc_walk(_, _, _, _, _)
rplc_walk(h, path, cursor, current, stack) ==
  IF cursor = 0 THEN [st |-> "Ok", stack |-> stack]
  ELSE IF h[current].tag # "Cell" THEN [st |-> "expected a cell", stack |-> stack]
  ELSE LET bit == Bit(path, cursor - 1)
       IN  rplc_walk(h, path, cursor - 1, Descend(h, current, bit),
                     Append(stack, <<bit, h[current].car, h[current].cdr>>))

\* rplc_wrap putting the result on the side the walk did not take
rplc_wrap_swapped(h, frame, result) ==
  IF frame[1] = 0 THEN Noun_cell(h, frame[2], result)
                  ELSE Noun_cell(h, result, frame[3])

\* rplc_wrap pairing the result with a fresh copy of the sibling node
rplc_wrap_copying(h, frame, result) ==
  LET sib  == IF frame[1] = 0 THEN frame[3] ELSE frame[2]
      copy == Ok(Append(h, h[sib]), Len(h) + 1)
  IN  IF frame[1] = 0 THEN Noun_cell(copy.heap, result, copy.ref)
                      ELSE Noun_cell(copy.heap, copy.ref, result)

\* one iteration of the second loop: the cell that wraps the result
rplc_wrap(h, frame, result) ==
  IF frame[1] = 0 THEN Noun_cell(h, result, frame[3])
                  ELSE Noun_cell(h, frame[2], result)

\* the second loop: `while let Some(..) = stack.pop()`
RECURSIVE rplc_unwind(_, _, _)
rplc_unwind(h, stack, result) ==
  IF stack = <<>> THEN Ok(h, result)
  ELSE LET w == rplc_wrap(h, stack[Len(stack)], result)
       IN  rplc_unwind(w.heap, SubSeq(stack, 1, Len(stack) - 1), w.ref)

rplc_at(h, path, new_val, target) ==
  LET cursor == rplc_cursor(path)
  IN  IF cursor.st # "Ok" THEN Panic(h, cursor.st)
      ELSE LET walk == rplc_walk(h, path, cursor.n, target, <<>>)
           IN  IF walk.st # "Ok" THEN Panic(h, walk.st)
               ELSE rplc_unwind(h, walk.stack, new_val)

(***************************************************************************)
(* nock and the operators, lines 124-340.                                  *)
(*                                                                         *)
(* nock calls itself, directly and through the operators inlined in it,    *)
(* as deep as the formula asks.  The model keeps the call stack: a frame   *)
(* [noun, pc, loc] is an activation nock(noun) waiting at the call site pc *)
(* for a nested nock to return, loc the values it holds meanwhile.  An     *)
(* operator below runs the code of the source from its entry, and a        *)
(* continuation <operator>_<variable> runs it from the point where the     *)
(* nested call that binds <variable> returns; each runs up to the next     *)
(* nested call (Call) or to the return or panic of the activation (Done).  *)
(***************************************************************************)
Call(h, noun, pc, loc) ==
  [k |-> "call", heap |-> h, st |-> "Ok", ref |-> 0,
   noun |-> noun, pc |-> pc, loc |-> loc]

Done(r) ==
  [k |-> "ret", heap |-> r.heap, st |-> r.st, ref |-> r.ref,
   noun |-> 0, pc |-> "", loc |-> <<>>]

\* nock(Noun::cell(subj, form))
call_nock(h, subj, form, pc, loc) ==
  LET a == Noun_cell(h, subj, form) IN Call(a.heap, a.ref, pc, loc)

idty(h, noun) == Done(Ok(h, noun))

\* the autocons arm of nock, lines 132-137
autocons(h, subj, b_, c, d) ==
  LET bc == Noun_cell(h, b_, c)
      a  == Noun_cell(bc.heap, subj, bc.ref)
      d_ == Noun_cell(a.heap, subj, d)
  IN  Call(d_.heap, a.ref, "autocons.a", <<d_.ref>>)

autocons_a(h, loc, r) == Call(h, loc[1], "autocons.d", <<r.ref>>)

\* autocons pairing the two products the wrong way round
autocons_d_swapped(h, loc, r) == Done(Noun_cell(h, r.ref, loc[1]))

autocons_d(h, loc, r) == Done(Noun_cell(h, loc[1], r.ref))

eval(h, subj, form) ==
  IF h[form].tag # "Cell" THEN Done(Panic(h, "explicit panic"))
  ELSE call_nock(h, subj, h[form].car, "eval.evaled_b", <<>>)

eval_evaled_b(h, subj, form, r) ==
  call_nock(h, subj, h[form].cdr, "eval.evaled_c", <<r.ref>>)

eval_evaled_c(h, loc, r) == call_nock(h, loc[1], r.ref, "eval.ret", <<>>)

incr(h, subj, form) == call_nock(h, subj, form, "incr.prod", <<>>)

incr_prod(h, r) ==
  IF h[r.ref].tag # "Atom" THEN Done(Panic(h, "explicit panic"))
  ELSE LET n == Atom_incr(h[r.ref].n)
       IN  IF n.st # "Ok" THEN Done(Panic(h, n.st))
           ELSE Done(Noun_atom(h, n.n))

eqal(h, subj, form) ==
  IF h[form].tag # "Cell" THEN Done(Panic(h, "explicit panic"))
  ELSE call_nock(h, subj, h[form].car, "eqal.evaled_b", <<>>)

eqal_evaled_b(h, subj, form, r) ==
  call_nock(h, subj, h[form].cdr, "eqal.evaled_c", <<r.ref>>)

eqal_evaled_c(h, loc, r) ==
  Done(Noun_atom(h, IF noun_eq(h, loc[1], r.ref) THEN 0 ELSE 1))

cell(h, subj, form) == call_nock(h, subj, form, "cell.prod", <<>>)

cell_prod(h, r) == Done(Noun_atom(h, IF is_cell(h, r.ref) THEN 0 ELSE 1))

\* brch_addr with the two atoms exchanged
brch_addr_swapped(h) ==
  LET three == Noun_atom(h, 3)
      two   == Noun_atom(three.heap, 2)
  IN  Noun_cell(two.heap, three.ref, two.ref)

\* `let brch_addr = Noun::cell(Noun::atom(Atom(2)), Noun::atom(Atom(3)))`
brch_addr(h) ==
  LET two   == Noun_atom(h, 2)
      three == Noun_atom(two.heap, 3)
  IN  Noun_cell(three.heap, two.ref, three.ref)

\* `let cond = Noun::cell(subj, Noun::cell(NOUN_INCR, Noun::cell(NOUN_INCR, b)))`
brch_cond(h, subj, b) ==
  LET i1 == Noun_cell(h, NOUN_INCR, b)
      i2 == Noun_cell(i1.heap, NOUN_INCR, i1.ref)
  IN  Noun_cell(i2.heap, subj, i2.ref)

brch(h, subj, form) ==
  IF h[form].tag # "Cell" THEN Done(Panic(h, "explicit panic"))
  ELSE IF h[h[form].cdr].tag # "Cell" THEN Done(Panic(h, "explicit panic"))
  ELSE LET ba   == brch_addr(h)
           cond == brch_cond(ba.heap, subj, h[form].car)
       IN  Call(cond.heap, cond.ref, "brch.evaled_cond", <<ba.ref>>)

brch_evaled_cond(h, loc, r) ==
  LET a == Noun_cell(h, NOUN_ADDR, r.ref)
  IN  call_nock(a.heap, loc[1], a.ref, "brch.addr_", <<>>)

brch_addr_(h, form, r) ==
  LET then_else == Noun_cell(h, h[h[form].cdr].car, h[h[form].cdr].cdr)
      a == Noun_cell(then_else.heap, NOUN_ADDR, r.ref)
  IN  call_nock(a.heap, then_else.ref, a.ref, "brch.form", <<>>)

brch_form(h, subj, r) == call_nock(h, subj, r.ref, "brch.ret", <<>>)

cmps(h, subj, form) ==
  IF h[form].tag # "Cell" THEN Done(Panic(h, "explicit panic"))
  ELSE call_nock(h, subj, h[form].car, "cmps.evaled_b", <<>>)

cmps_evaled_b(h, form, r) == call_nock(h, r.ref, h[form].cdr, "cmps.ret", <<>>)

extn(h, subj, form) ==
  IF h[form].tag # "Cell" THEN Done(Panic(h, "explicit panic"))
  ELSE call_nock(h, subj, h[form].car, "extn.evaled_b", <<>>)

extn_evaled_b(h, subj, form, r) ==
  LET new_subj == Noun_cell(h, r.ref, subj)
  IN  call_nock(new_subj.heap, new_subj.ref, h[form].cdr, "extn.ret", <<>>)

invk(h, subj, form) ==
  IF h[form].tag # "Cell" THEN Done(Panic(h, "explicit panic"))
  ELSE call_nock(h, subj, h[form].cdr, "invk.core", <<>>)

\* invk_eval taking the new subject at address 3 of the core
invk_eval_tail(h, b) ==
  LET three == Noun_atom(h, 3)
      s   == Noun_cell(three.heap, NOUN_ADDR, three.ref)
      f   == Noun_cell(s.heap, NOUN_ADDR, b)
      sf  == Noun_cell(f.heap, s.ref, f.ref)
  IN  Noun_cell(sf.heap, NOUN_EVAL, sf.ref)

\* `let eval = Noun::cell(NOUN_EVAL, Noun::cell(Noun::cell(NOUN_ADDR,
\* Noun::atom(Atom(1))), Noun::cell(NOUN_ADDR, b)))`
invk_eval(h, b) ==
  LET one == Noun_atom(h, 1)
      s   == Noun_cell(one.heap, NOUN_ADDR, one.ref)
      f   == Noun_cell(s.heap, NOUN_ADDR, b)
      sf  == Noun_cell(f.heap, s.ref, f.ref)
  IN  Noun_cell(sf.heap, NOUN_EVAL, sf.ref)

invk_core(h, form, r) ==
  LET eval_ == invk_eval(h, h[form].car)
  IN  call_nock(eval_.heap, r.ref, eval_.ref, "invk.ret", <<>>)

rplc(h, subj, form) ==
  IF h[form].tag # "Cell" THEN Done(Panic(h, "explicit panic"))
  ELSE IF h[h[form].car].tag # "Cell" THEN Done(Panic(h, "explicit panic"))
  ELSE IF h[h[h[form].car].car].tag # "Atom" THEN Done(Panic(h, "explicit panic"))
  ELSE call_nock(h, subj, h[h[form].car].cdr, "rplc.evaled_c", <<>>)

rplc_evaled_c(h, subj, form, r) ==
  call_nock(h, subj, h[form].cdr, "rplc.evaled_d", <<r.ref>>)

rplc_evaled_d(h, form, loc, r) ==
  Done(rplc_at(h, h[h[h[form].car].car].n, loc[1], r.ref))

\* the opcode dispatch of nock, lines 142-156
dispatch(h, inst, subj, b) ==
  CASE inst = ATOM_ADDR -> Done(addr(h, subj, b))
    [] inst = ATOM_IDTY -> idty(h, b)
    [] inst = ATOM_EVAL -> eval(h, subj, b)
    [] inst = ATOM_CELL -> cell(h, subj, b)
    [] inst = ATOM_INCR -> incr(h, subj, b)
    [] inst = ATOM_EQAL -> eqal(h, subj, b)
    [] inst = ATOM_BRCH -> brch(h, subj, b)
    [] inst = ATOM_CMPS -> cmps(h, subj, b)
    [] inst = ATOM_EXTN -> extn(h, subj, b)
    [] inst = ATOM_INVK -> invk(h, subj, b)
    [] inst = ATOM_RPLC -> rplc(h, subj, b)
    [] inst = ATOM_HINT -> Done(Panic(h, "not yet implemented: hint"))
    [] OTHER -> Done(Panic(h, "not yet implemented: atom"))

\* nock from its entry
nock(h, noun) ==
  IF h[noun].tag # "Cell" THEN Done(Panic(h, "not yet implemented"))
  ELSE LET subj == h[noun].car
           form == h[noun].cdr
       IN  IF h[form].tag # "Cell" THEN Done(Panic(h, "expected a cell but found"))
           ELSE LET inst == h[form].car
                    b    == h[form].cdr
                IN  IF h[inst].tag = "Cell"
                      THEN autocons(h, subj, h[inst].car, h[inst].cdr, b)
                      ELSE dispatch(h, h[inst].n, subj, b)

\* nock(noun) from the call site pc, where the nested call returned r; a
\* panic of the nested call unwinds this activation too
nock_resume(h, noun, pc, loc, r) ==
  LET subj == h[noun].car
      b    == h[h[noun].cdr].cdr
  IN  IF r.st # "Ok" THEN Done(Panic(h, r.st))
      ELSE CASE pc = "autocons.a" -> autocons_a(h, loc, r)
             [] pc = "autocons.d" -> autocons_d(h, loc, r)
             [] pc = "eval.evaled_b" -> eval_evaled_b(h, subj, b, r)
             [] pc = "eval.evaled_c" -> eval_evaled_c(h, loc, r)
             [] pc = "incr.prod" -> incr_prod(h, r)
             [] pc = "eqal.evaled_b" -> eqal_evaled_b(h, subj, b, r)
             [] pc = "eqal.evaled_c" -> eqal_evaled_c(h, loc, r)
             [] pc = "cell.prod" -> cell_prod(h, r)
             [] pc = "brch.evaled_cond" -> brch_evaled_cond(h, loc, r)
             [] pc = "brch.addr_" -> brch_addr_(h, b, r)
             [] pc = "brch.form" -> brch_form(h, subj, r)
             [] pc = "cmps.evaled_b" -> cmps_evaled_b(h, b, r)
             [] pc = "extn.evaled_b" -> extn_evaled_b(h, subj, b, r)
             [] pc = "invk.core" -> invk_core(h, b, r)
             [] pc = "rplc.evaled_c" -> rplc_evaled_c(h, subj, b, r)
             [] pc = "rplc.evaled_d" -> rplc_evaled_d(h, b, loc, r)
             [] OTHER -> Done(Ok(h, r.ref))

(***************************************************************************)
(* The syn! literal builder, lines 426-469.  A literal is an opcode name,  *)
(* a number or a pair of literals.                                         *)
(***************************************************************************)
Num(n) == [k |-> "num", n |-> n]
Op(n) == [k |-> "op", n |-> n]
Pair(a, b) == [k |-> "pair", car |-> a, cdr |-> b]

\* Arguments are evaluated in order, each before the call that takes it:
\* x is evaluated once, then F of its value.
Then(x, F(_)) == CHOOSE r \in { F(v) : v \in {x} } : TRUE

RECURSIVE syn(_, _)
syn(h, lit) ==
  IF lit.k = "op" THEN Ok(h, lit.n + 1)
  ELSE IF lit.k = "num" THEN Noun_atom(h, lit.n)
  ELSE Then(syn(h, lit.car), LAMBDA a :
       Then(syn(a.heap, lit.cdr), LAMBDA b :
       Noun_cell(b.heap, a.ref, b.ref)))

\* the tree a literal denotes
RECURSIVE LitTree(_)
LitTree(lit) ==
  IF lit.k = "pair" THEN <<LitTree(lit.car), LitTree(lit.cdr)>> ELSE <<lit.n>>

addr_(p) == Pair(Op(ATOM_ADDR), Num(p))
idty_(l) == Pair(Op(ATOM_IDTY), l)
incr_(f) == Pair(Op(ATOM_INCR), f)

(***************************************************************************)
(* The fixtures of the tests, lines 471-594.                               *)
(***************************************************************************)
\* test_decr, lines 576-588
DecrTest == Pair(Op(ATOM_EQAL), Pair(addr_(7), incr_(addr_(6))))
DecrYes == addr_(6)
DecrNewCore == Pair(addr_(2), Pair(incr_(addr_(6)), addr_(7)))
DecrNah == Pair(Op(ATOM_INVK), Pair(Num(2), DecrNewCore))
DecrLoop == idty_(Pair(Op(ATOM_BRCH), Pair(DecrTest, Pair(DecrYes, DecrNah))))
DecrFormula ==
  Pair(Op(ATOM_EXTN),
       Pair(idty_(Num(0)),
            Pair(Op(ATOM_EXTN),
                 Pair(DecrLoop, Pair(Op(ATOM_INVK), Pair(Num(2), addr_(1)))))))

\* test_rplc, line 549
RplcTarget == Pair(Pair(Num(22), Pair(Num(89), Num(78))), Num(44))

(***************************************************************************)
(* The callers.  The repository's only callers are its tests: each builds  *)
(* nouns with syn! and Noun::cell, makes one call and looks at the result. *)
(* roots are the nouns the caller holds and call is the call it made: its  *)
(* arguments a, the outcome st ("running" until it returns or panics), the *)
(* returned noun ref and the size h0 of the heap when it was made.         *)
(* callstack is the call stack of nock and ctl what happens next: the call of  *)
(* nock(ctl.noun), or the return of ctl.ref (or of the panic ctl.st) to    *)
(* the frame on top.  log is a history variable: one entry per finished    *)
(* activation of nock that had at most LogDepth activations below it, with *)
(* its subject, its formula, its outcome and that number, its depth.       *)
(***************************************************************************)
Idle == [k |-> "idle", noun |-> 0, st |-> "Ok", ref |-> 0]

NoCall == [op |-> "none", a |-> <<>>, st |-> "none", ref |-> 0, h0 |-> 0]

Called(op, a, r) ==
  /\ call' = [op |-> op, a |-> a, st |-> r.st, ref |-> r.ref, h0 |-> Len(heap)]
  /\ heap' = r.heap
  /\ UNCHANGED <<overflow_checks, roots, callstack, ctl, log>>

Built(r) ==
  /\ heap' = r.heap
  /\ roots' = Append(roots, r.ref)
  /\ UNCHANGED <<overflow_checks, call, callstack, ctl, log>>

Init ==
  /\ heap = ThreadLocals
  /\ overflow_checks \in BOOLEAN
  /\ roots = <<>>
  /\ call = NoCall
  /\ callstack = <<>>
  /\ ctl = Idle
  /\ log = <<>>

\* `let t = syn!(..)`
Syn(lit) ==
  /\ call.op = "none"
  /\ Len(roots) < MaxRoots
  /\ Built(syn(heap, lit))

\* `Noun::cell(a, b)` of two nouns the caller holds
Cons(i, j) ==
  /\ call.op = "none"
  /\ Len(roots) < MaxRoots
  /\ Built(Noun_cell(heap, roots[i], roots[j]))

(***************************************************************************)
(* The path codec called directly, as test_rplc does.                      *)
(***************************************************************************)
PathLits ==
  { Num(7), Pair(Num(0), Num(1)), Pair(Pair(Num(0), Num(1)), Num(2)),
    Pair(Num(3), Pair(Num(0), Num(1))),
    Pair(Pair(Num(1), Num(2)), Pair(Num(3), Num(4))), RplcTarget }

\* `addr(&subj, Noun::atom(Atom(p)))`
CallAddr(i, p) ==
  /\ call.op = "none"
  /\ LET a == Noun_atom(heap, p)
     IN  Called("addr", <<roots[i], p>>, addr(a.heap, roots[i], a.ref))

\* `rplc_at(p, new_val, &target)`
CallRplcAt(p, i, j) ==
  /\ call.op = "none"
  /\ Called("rplc_at", <<p, roots[i], roots[j]>>, rplc_at(heap, p, roots[i], roots[j]))

\* `noun_eq(a, b)`; the returned bool is kept in ref as YES/NAH
CallNounEq(i, j) ==
  /\ call.op = "none"
  /\ Called("noun_eq", <<roots[i], roots[j]>>,
            Ok(heap, IF noun_eq(heap, roots[i], roots[j]) THEN YES ELSE NAH))

NextPath ==
  \/ \E lit \in PathLits : Syn(lit)
  \/ \E i, j \in 1..Len(roots) : Cons(i, j)
  \/ \E i \in 1..Len(roots), p \in 0..MaxPath : CallAddr(i, p)
  \/ \E i, j \in 1..Len(roots), p \in 0..MaxPath : CallRplcAt(p, i, j)
  \/ \E i, j \in 1..Len(roots) : CallNounEq(i, j)

SpecPath == Init /\ [][NextPath]_vars

(***************************************************************************)
(* nock called on (subject . formula), as the other tests do.  The subject *)
(* is a literal, or a pair the caller made of nouns it holds; the formula  *)
(* is a literal.                                                           *)
(***************************************************************************)
eval_(b, c) == Pair(Op(ATOM_EVAL), Pair(b, c))
eqal_(b, c) == Pair(Op(ATOM_EQAL), Pair(b, c))
brch_(b, c, d) == Pair(Op(ATOM_BRCH), Pair(b, Pair(c, d)))
cmps_(b, c) == Pair(Op(ATOM_CMPS), Pair(b, c))
extn_(b, c) == Pair(Op(ATOM_EXTN), Pair(b, c))
invk_(b, c) == Pair(Op(ATOM_INVK), Pair(b, c))
rplc_(b, c, d) == Pair(Op(ATOM_RPLC), Pair(Pair(b, c), d))
hint_(b, c) == Pair(Op(ATOM_HINT), Pair(b, c))

\* a core whose arm at path 2 increments the payload at path 3
CoreLit == Pair(incr_(addr_(3)), Num(41))

Subjects ==
  { Num(0), Num(1), Num(2), Num(41), Num(AtomMax - 1), Num(AtomMax),
           Pair(Num(0), Num(1)), Pair(Num(1), Num(0)), CoreLit,
           Pair(Pair(Num(0), Num(1)), Pair(Num(0), Num(1))),
           Pair(Pair(Num(0), Num(1)), Pair(Num(0), Num(2))) }

BrchTests == { addr_(1), addr_(2), idty_(Pair(Num(0), Num(0))) }
BrchArms == { idty_(Num(99)), idty_(Num(42)), incr_(addr_(1)), Num(5) }
BrchForms == { brch_(b, c, d) : b \in BrchTests, c \in BrchArms, d \in BrchArms }

InvkCores == { addr_(1), idty_(CoreLit), Pair(idty_(incr_(addr_(3))), addr_(1)) }
InvkForms == { invk_(Num(b), c) : b \in {0, 1, 2, 3, 6}, c \in InvkCores }

HintForms == { hint_(b, c) : b \in {Num(0), idty_(Num(1))},
                             c \in {idty_(Num(42)), addr_(1)} }

IncrForms == { incr_(idty_(addr_(1))), incr_(addr_(1)), incr_(incr_(addr_(1))) }

EqalForms ==
  { eqal_(addr_(2), addr_(3)), eqal_(addr_(1), addr_(1)),
    eqal_(addr_(1), idty_(Pair(Num(0), Num(1)))), eqal_(addr_(1), idty_(Num(0))),
    eqal_(addr_(2), idty_(Num(0))) }

OtherForms ==
  { eval_(incr_(addr_(1)), idty_(addr_(1))), cmps_(incr_(addr_(1)), addr_(1)),
    extn_(incr_(addr_(1)), addr_(1)), Pair(Op(ATOM_CELL), addr_(1)),
    rplc_(Num(0), idty_(Num(55)), addr_(1)), rplc_(Num(2), idty_(Num(55)), addr_(1)),
    rplc_(Num(3), addr_(1), addr_(1)), Pair(Num(12), Num(0)), Num(0),
    addr_(0), Pair(Op(ATOM_ADDR), Pair(Num(0), Num(1))) }

Formulas ==
  BrchForms \cup InvkForms \cup HintForms \cup IncrForms \cup EqalForms
    \cup OtherForms

\* `nock(Noun::cell(s, syn!(..)))` on the noun built last: the call
Reduce(lit) ==
  /\ call.op = "none"
  /\ roots # <<>>
  /\ LET form == syn(heap, lit)
         a    == Noun_cell(form.heap, roots[Len(roots)], form.ref)
     IN  /\ heap' = a.heap
         /\ call' = [op |-> "nock", a |-> <<a.ref>>, st |-> "running",
                     ref |-> 0, h0 |-> Len(heap)]
         /\ ctl' = [k |-> "call", noun |-> a.ref, st |-> "Ok", ref |-> 0]
  /\ UNCHANGED <<overflow_checks, roots, callstack, log>>

\* the subject and the formula of the activation nock(noun)
SubjOf(h, noun) == IF h[noun].tag = "Cell" THEN h[noun].car ELSE 0
FormOf(h, noun) == IF h[noun].tag = "Cell" THEN h[noun].cdr ELSE 0

\* The activation nock(noun) ran on to s: either to a nested call, and then
\* it waits in frames below the callee, or to its end, and then it is logged
\* and its outcome goes to the frame below or, when there is none, to the
\* caller.
Ran(noun, frames, s) ==
  /\ heap' = s.heap
  /\ IF s.k = "call"
       THEN /\ callstack' = Append(frames, [noun |-> noun, pc |-> s.pc, loc |-> s.loc])
            /\ ctl' = [k |-> "call", noun |-> s.noun, st |-> "Ok", ref |-> 0]
            /\ UNCHANGED <<log, call>>
       ELSE /\ callstack' = frames
            /\ log' = IF Len(frames) > LogDepth THEN log
                       ELSE Append(log, [subj |-> SubjOf(heap, noun),
                                         form |-> FormOf(heap, noun),
                                         st |-> s.st, ref |-> s.ref,
                                         depth |-> Len(frames)])
            /\ IF frames = <<>>
                 THEN /\ ctl' = Idle
                      /\ call' = [call EXCEPT !.st = s.st, !.ref = s.ref]
                 ELSE /\ ctl' = [k |-> "ret", noun |-> 0, st |-> s.st, ref |-> s.ref]
                      /\ UNCHANGED call
  /\ UNCHANGED <<overflow_checks, roots>>

\* nock is entered
NockEnter ==
  /\ ctl.k = "call"
  /\ Ran(ctl.noun, callstack, nock(heap, ctl.noun))

\* a nested nock returns, or panics, into the activation on top of the call stack
NockReturn ==
  /\ ctl.k = "ret"
  /\ callstack # <<>>
  /\ LET fr == callstack[Len(callstack)]
     IN  Ran(fr.noun, SubSeq(callstack, 1, Len(callstack) - 1),
             nock_resume(heap, fr.noun, fr.pc, fr.loc, ctl))

NextNock ==
  \/ \E lit \in Subjects : roots = <<>> /\ Syn(lit)
  \/ \E i, j \in 1..Len(roots) : Cons(i, j)
  \/ \E lit \in Formulas : Reduce(lit)
  \/ NockEnter
  \/ NockReturn

SpecNock == Init /\ [][NextNock]_vars

(***************************************************************************)
(* test_decr: the decrement formula on an atom subject n >= 1.  nock runs  *)
(* on: an activation that can take a step takes it.                        *)
(***************************************************************************)
DecrSubjects == (1..MaxDecr) \cup {43}

NextDecr ==
  \/ \E n \in DecrSubjects : roots = <<>> /\ Syn(Num(n))
  \/ Reduce(DecrFormula)
  \/ NockEnter
  \/ NockReturn

SpecDecr == Init /\ [][NextDecr]_vars /\ WF_vars(NockEnter) /\ WF_vars(NockReturn)

(***************************************************************************)
(* Claims about the path codec, checked under SpecPath.                    *)
(***************************************************************************)
\* read(p, root): addr with the address atom p
Read(h, p, root) ==
  LET a == Noun_atom(h, p) IN addr(a.heap, root, a.ref)

\* read(q, read(n, root)), failing when either read fails
ReadRead(h, q, n, root) ==
  LET r == Read(h, n, root)
  IN  IF r.st # "Ok" THEN r ELSE Read(r.heap, q, r.ref)

\* C1: the address laws.  For every call addr(T, p) with p >= 1: p = 1
\* returns T itself; p = 2 and p = 3 on a cell return its head and its tail;
\* p = 2n returns what read(2, read(n, T)) returns and p = 2n + 1 what
\* read(3, read(n, T)) returns, and the call fails exactly when that
\* composition fails.
AddrLaws ==
  (call.op = "addr" /\ call.a[2] >= 1) =>
    LET T == call.a[1]
        p == call.a[2]
        c == ReadRead(heap, 2 + (p % 2), p \div 2, T)
    IN  /\ p = 1 => (call.st = "Ok" /\ call.ref = T)
        /\ (p = 2 /\ heap[T].tag = "Cell") => (call.st = "Ok" /\ call.ref = heap[T].car)
        /\ (p = 3 /\ heap[T].tag = "Cell") => (call.st = "Ok" /\ call.ref = heap[T].cdr)
        /\ p >= 2 => /\ (call.st = "Ok") <=> (c.st = "Ok")
                     /\ call.st = "Ok" => call.ref = c.ref

\* a read two levels deep succeeded
AddrLawsWitness ==
  /\ call.op = "addr"
  /\ call.a[2] >= 4
  /\ call.st = "Ok"
  /\ call.ref # call.a[1]

\* a path is valid against a tree when reading it succeeds
ValidPath(h, p, root) == p >= 1 /\ Read(h, p, root).st = "Ok"

\* C2: the replacement round trip.  For every call rplc_at(p, V, T) with p
\* valid against T: the call returns a noun R, read(p, R) denotes the tree V
\* denotes, and rplc_at(p, read(p, T), T) denotes the tree T denotes.
RplcRoundTrip ==
  (call.op = "rplc_at" /\ ValidPath(heap, call.a[1], call.a[3])) =>
    LET p == call.a[1]
        V == call.a[2]
        T == call.a[3]
        back == Read(heap, p, call.ref)
        old  == Read(heap, p, T)
        same == rplc_at(old.heap, p, old.ref, T)
    IN  /\ call.st = "Ok"
        /\ back.st = "Ok"
        /\ Tree(back.heap, back.ref) = Tree(heap, V)
        /\ same.st = "Ok"
        /\ Tree(same.heap, same.ref) = Tree(heap, T)

\* a replacement two levels deep that changed the tree
RplcRoundTripWitness ==
  /\ call.op = "rplc_at"
  /\ call.a[1] >= 4
  /\ call.st = "Ok"
  /\ Tree(heap, call.ref) # Tree(heap, call.a[3])

\* the siblings along the walk of path p from noun r, root first
RECURSIVE Siblings(_, _, _, _)
Siblings(h, p, cursor, r) ==
  IF cursor = 0 THEN <<>>
  ELSE LET bit == Bit(p, cursor - 1)
       IN  <<Descend(h, r, 1 - bit)>>
             \o Siblings(h, p, cursor - 1, Descend(h, r, bit))

\* the cells on the walk of path p from noun r, root first, the end excluded
RECURSIVE Spine(_, _, _, _)
Spine(h, p, cursor, r) ==
  IF cursor = 0 THEN <<>>
  ELSE <<r>> \o Spine(h, p, cursor - 1, Descend(h, r, Bit(p, cursor - 1)))

\* C9: replace never mutates and shares by identity.  A step that calls
\* rplc_at(p, V, T) with p valid against T leaves every node that existed
\* before as it was, the sibling at each step of the walk in the result is
\* the very node it is in T, and the only nodes allocated are the spine
\* cells of the result, one per step.
RplcFrame ==
  [][ (call.op = "none" /\ call'.op = "rplc_at"
         /\ ValidPath(heap, call'.a[1], call'.a[3])) =>
        LET p == call'.a[1]
            T == call'.a[3]
            n == BitLen(p) - 1
        IN  /\ call'.st = "Ok"
            /\ \A k \in 1..Len(heap) : heap'[k] = heap[k]
            /\ Siblings(heap', p, n, call'.ref) = Siblings(heap, p, n, T)
            /\ Len(heap') = Len(heap) + n
            /\ \A k \in 1..n : Spine(heap', p, n, call'.ref)[k] > Len(heap)
    ]_vars

\* a replacement two levels deep went through
RplcFrameWitness ==
  /\ call.op = "rplc_at"
  /\ call.a[1] >= 4
  /\ call.st = "Ok"
  /\ Len(heap) = call.h0 + 2

\* C10 as claimed: a write with path 0 fails with the zero-address panic of
\* addr, as a read with address 0 does.
ZeroPathFailsAlike ==
  /\ (call.op = "addr" /\ call.a[2] = 0) => call.st = "address can't be zero"
  /\ (call.op = "rplc_at" /\ call.a[1] = 0) => call.st = "address can't be zero"

(***************************************************************************)
(* Claims about nock, checked under SpecNock.  They are about the call the *)
(* caller made, once it has returned or panicked: S is its subject, F its  *)
(* formula, and the activations it made of itself are in the log, the ones *)
(* it made directly at depth 1.                                            *)
(***************************************************************************)
Returned == call.op = "nock" /\ call.st # "running"
S == heap[call.a[1]].car
F == heap[call.a[1]].cdr

\* the formula is (op . operand), op an atom
IsOp(op) ==
  /\ Returned
  /\ heap[F].tag = "Cell"
  /\ heap[heap[F].car] = AtomNode(op)

\* the finished activations at depth d of nock(subj . form)
Entries(d, subj, form) ==
  { i \in DOMAIN log : log[i].depth = d /\ log[i].subj = subj /\ log[i].form = form }

\* the call ended as the activation log[i] did
EndedAs(i) == call.st = log[i].st /\ call.ref = log[i].ref

IsAtom(e, n) == e.st = "Ok" /\ heap[e.ref] = AtomNode(n)

\* the operand of the branch is (B . (C . D))
IsBrch == IsOp(ATOM_BRCH) /\ heap[heap[F].cdr].tag = "Cell"
                          /\ heap[heap[heap[F].cdr].cdr].tag = "Cell"
BrchB == heap[heap[F].cdr].car
BrchC == heap[heap[heap[F].cdr].cdr].car
BrchD == heap[heap[heap[F].cdr].cdr].cdr

\* C3: branch is the direct conditional.  B is reduced against the subject
\* (inside the two increments, at depth 3); if it yields atom 0 the call
\* ends as the reduction of C against the subject does and D is not
\* reduced; if it yields atom 1 the call ends as the reduction of D does and
\* C is not reduced; if it yields another atom or a cell the call fails and
\* neither is reduced.
BrchDirect ==
  IsBrch =>
    /\ Cardinality(Entries(3, S, BrchB)) = 1
    /\ \A i \in Entries(3, S, BrchB) :
         /\ IsAtom(log[i], YES) =>
              /\ Cardinality(Entries(1, S, BrchC)) = 1
              /\ \A j \in Entries(1, S, BrchC) : EndedAs(j)
              /\ Entries(1, S, BrchD) = {}
         /\ IsAtom(log[i], NAH) =>
              /\ Cardinality(Entries(1, S, BrchD)) = 1
              /\ \A j \in Entries(1, S, BrchD) : EndedAs(j)
              /\ Entries(1, S, BrchC) = {}
         /\ (log[i].st = "Ok" /\ ~IsAtom(log[i], YES) /\ ~IsAtom(log[i], NAH)) =>
              /\ call.st # "Ok"
              /\ Entries(1, S, BrchC) = {}
              /\ Entries(1, S, BrchD) = {}

\* a branch took its yes arm and returned, its no arm being no formula at all
BrchDirectWitness ==
  /\ IsBrch
  /\ call.st = "Ok"
  /\ \E i \in Entries(3, S, BrchB) : IsAtom(log[i], YES)
  /\ heap[BrchD].tag = "Atom"

\* the operand of the invoke is (B . C), B an atom
IsInvk == IsOp(ATOM_INVK) /\ heap[heap[F].cdr].tag = "Cell"
                          /\ heap[heap[heap[F].cdr].car].tag = "Atom"
InvkB == heap[heap[F].cdr].car
InvkC == heap[heap[F].cdr].cdr

\* C4: invoke reduces the arm at path B of the core against the core.  C is
\* reduced against the subject to the core; the call ends as the reduction
\* of read(B, core) against the core does (or fails as the core or the read
\* fails), and what is reduced after the core is there is reduced against
\* the core.
InvkArm ==
  IsInvk =>
    /\ Cardinality(Entries(1, S, InvkC)) = 1
    /\ \A i \in Entries(1, S, InvkC) :
         IF log[i].st # "Ok" THEN call.st = log[i].st
         ELSE LET core == log[i].ref
                  arm  == addr(heap, core, InvkB)
              IN  /\ arm.st # "Ok" => call.st = arm.st
                  /\ arm.st = "Ok" =>
                       /\ Entries(2, core, arm.ref) # {}
                       /\ \A j \in Entries(2, core, arm.ref) : EndedAs(j)
                  /\ \A j \in DOMAIN log :
                       (j > i /\ log[j].depth \in {1, 2}) => log[j].subj = core

\* an invoke of arm 2 of a core that is not the subject returned 42
InvkArmWitness ==
  /\ IsInvk
  /\ call.st = "Ok"
  /\ heap[InvkB] = AtomNode(2)
  /\ Tree(heap, call.ref) = <<42>>
  /\ \E i \in Entries(1, S, InvkC) : log[i].ref # S

\* the operand of the hint is (B . C)
IsHint == IsOp(ATOM_HINT) /\ heap[heap[F].cdr].tag = "Cell"
HintC == heap[heap[F].cdr].cdr

\* C5 as claimed: a hint reduces the formula C it carries against the
\* subject and ends as that reduction does.
HintPassThrough ==
  IsHint =>
    /\ Entries(1, S, HintC) # {}
    /\ \A j \in Entries(1, S, HintC) : EndedAs(j)

IncrQuoteTree == <<<<4>>, <<<<1>>, <<<<0>>, <<1>>>>>>>>
IncrAddrTree == <<<<4>>, <<<<0>>, <<1>>>>>>

\* C6 as claimed: subject 41 against (4 . (1 . (0 . 1))) yields 42.
IncrQuoteYields42 ==
  (Returned /\ Tree(heap, S) = <<41>> /\ Tree(heap, F) = IncrQuoteTree) =>
    (call.st = "Ok" /\ Tree(heap, call.ref) = <<42>>)

\* C6 amended: subject 41 against (4 . (0 . 1)) yields 42, and against
\* (4 . (1 . (0 . 1))) the quote yields the cell (0 . 1) and the increment
\* panics.
IncrExample ==
  /\ (Returned /\ Tree(heap, S) = <<41>> /\ Tree(heap, F) = IncrAddrTree) =>
       (call.st = "Ok" /\ Tree(heap, call.ref) = <<42>>)
  /\ (Returned /\ Tree(heap, S) = <<41>> /\ Tree(heap, F) = IncrQuoteTree) =>
       call.st = "explicit panic"

IncrExampleWitness ==
  /\ Returned
  /\ Tree(heap, S) = <<41>>
  /\ Tree(heap, F) = IncrAddrTree
  /\ call.st = "Ok"

\* the call is the decrement scenario on an atom subject n >= 1
IsDecr ==
  /\ call.op = "nock"
  /\ heap[S].tag = "Atom"
  /\ heap[S].n >= 1
  /\ Tree(heap, F) = LitTree(DecrFormula)

DecrDone ==
  /\ IsDecr
  /\ call.st = "Ok"
  /\ Tree(heap, call.ref) = <<heap[S].n - 1>>

\* C7: the decrement scenario on an atom subject n >= 1 terminates and
\* returns n - 1.
DecrReturns == IsDecr ~> DecrDone

\* subject 43 returned 42
DecrReturnsWitness == DecrDone /\ heap[S].n = 43

\* the operand of the deep-equal is (B . C)
IsEqal == IsOp(ATOM_EQAL) /\ heap[heap[F].cdr].tag = "Cell"
EqalB == heap[heap[F].cdr].car
EqalC == heap[heap[F].cdr].cdr

\* C8: deep-equal yields atom 0 when the nouns B and C reduce to denote the
\* same tree of atoms, shared or not, and atom 1 when they do not.
EqalDeep ==
  IsEqal =>
    \A i \in Entries(1, S, EqalB), j \in Entries(1, S, EqalC) :
      (log[i].st = "Ok" /\ log[j].st = "Ok") =>
        /\ call.st = "Ok"
        /\ heap[call.ref] =
             AtomNode(IF Tree(heap, log[i].ref) = Tree(heap, log[j].ref)
                        THEN YES ELSE NAH)

\* two cells that share no node and denote the same tree compared equal
EqalDeepWitness ==
  /\ IsEqal
  /\ call.st = "Ok"
  /\ heap[call.ref] = AtomNode(YES)
  /\ \E i \in Entries(1, S, EqalB), j \in Entries(1, S, EqalC) :
       /\ log[i].ref # log[j].ref
       /\ heap[log[i].ref].tag = "Cell"
       /\ heap[log[i].ref].car # heap[log[j].ref].car
       /\ heap[log[i].ref].cdr # heap[log[j].ref].cdr

====
